---------------------------- MODULE Spec2Model ----------------------------
(***************************************************************************)
(* Quality control of polarimetric radar moments (radarQualityControl.py): *)
(* rain-cell segmentation (dataMasking_DROPs), phase unfolding             *)
(* (PhaseUnfolding), the two reconstruction drivers (PhaseRec_LP,          *)
(* PhaseRec_DROPs) and the Z-PHI attenuation correction (correct_ZPHI).    *)
(*                                                                         *)
(* Arrays are functions over 0-based indices, as in the source.  Real      *)
(* quantities are scaled integers: dispersion and correlation in           *)
(* hundredths, gate width in metres; the unit of phase is stated with each *)
(* function.                                                               *)
(***************************************************************************)
EXTENDS Integers, Sequences, FiniteSets, TLC

VARIABLES
    fn,                 \* the function being executed
    pc,                 \* its control state
    Phi_dp_array,       \* [radial -> [gate -> phase]]
    rho_hv_array,       \* [radial -> [gate -> correlation, hundredths]]
    d_PhiDP,            \* [radial -> [gate -> padded dispersion, hundredths]]
    GateWidth_array,    \* [radial -> gate width, metres]
    KDP_array,          \* [radial -> [gate -> rate]]
    reflectivity_array, \* [radial -> [gate -> reflectivity value]]
    Phi_dp_in,          \* the phase array as passed in
    KDP_in,             \* the rate array as passed in
    reflectivity_in,    \* the reflectivity array as passed in
    population_min,     \* parameter of the segmentation
    max_phaseDiff,      \* parameter of PhaseUnfolding (phase units)
    dphase,             \* parameter of PhaseUnfolding (phase units)
    r_start,            \* parameter of correct_ZPHI
    record_list,        \* parameter of PhaseRec_DROPs
    r,                  \* loop index over radials
    cid,                \* loop index over rain cells
    counter,            \* dataMasking_DROPs: counter
    i_end_prev,         \* dataMasking_DROPs: i_end_prev
    cell_id,            \* dataMasking_DROPs: cell_id
    labels,             \* dataMasking_DROPs: labels
    ref,                \* PhaseUnfolding: ref (tenths of a phase unit)
    pt_start,           \* PhaseUnfolding: pt_start
    status              \* the reconstruction drivers: outcome of every cell processed

arrayVars == <<Phi_dp_array, rho_hv_array, d_PhiDP, GateWidth_array, KDP_array,
               reflectivity_array>>
inVars    == <<Phi_dp_in, KDP_in, reflectivity_in>>
parVars   == <<population_min, max_phaseDiff, dphase, r_start, record_list>>
segVars   == <<counter, i_end_prev, cell_id, labels>>
unfVars   == <<ref, pt_start>>
vars      == <<fn, pc, arrayVars, inVars, parVars, r, cid, segVars, unfVars, status>>

-----------------------------------------------------------------------------
(* Arrays *)

Size(a) == Cardinality(DOMAIN a)

Const(n, v) == [i \in 0..(n - 1) |-> v]

\* a ++ b for 0-based arrays (np.concatenate)
Concat(a, b) ==
    [i \in 0..(Size(a) + Size(b) - 1) |-> IF i < Size(a) THEN a[i] ELSE b[i - Size(a)]]

RECURSIVE SumOver(_, _)
SumOver(f, S) ==
    IF S = {} THEN 0
    ELSE LET x == CHOOSE y \in S : TRUE IN f[x] + SumOver(f, S \ {x})

\* np.searchsorted(a, v, side="left") on the sorted index list a (held as a set)
searchsorted(a, v) == Cardinality({x \in a : x < v})

\* a[k] of the sorted index list a (held as a set)
Nth(a, k) == CHOOSE x \in a : Cardinality({y \in a : y < x}) = k

-----------------------------------------------------------------------------
(* dataMasking_DROPs *)

d_max == 98
rho_max == 90

\* d_PhiDP after line 350: the num_good - 1 trailing gates repeat the last window
PadDispersion(d_win, num_good) ==
    Concat(d_win, Const(num_good - 1, d_win[Size(d_win) - 1]))

id_start(d) == {g \in DOMAIN d : d[g] >= d_max}

id_end(d, rho) == {g \in DOMAIN d : d[g] < d_max /\ rho[g] < rho_max}

SegStart(n) ==
    [counter |-> 0, i_end_prev |-> 0, cell_id |-> 1, labels |-> Const(n, 0), pc |-> "while"]

\* labels[lo:hi + 1] = v
SetSlice(lab, lo, hi, v) == [g \in DOMAIN lab |-> IF lo <= g /\ g <= hi THEN v ELSE lab[g]]

\* the start and end gate of the cell the next iteration builds
NextStart(st, d) == Nth(id_start(d), st.counter)
NextEnd(st, d, rho) == Nth(id_end(d, rho), searchsorted(id_end(d, rho), NextStart(st, d)))

LoopCond(st, d) == st.counter < Cardinality(id_start(d))
EndExceeds(st, d, rho) ==
    searchsorted(id_end(d, rho), NextStart(st, d)) >= Cardinality(id_end(d, rho))

\* Faulty variant of SegBody: the population check is dropped.
SegBody_NoPopulationCheck(st, d, rho, pop) ==
    LET i_start == NextStart(st, d)
        i_end   == NextEnd(st, d, rho)
        merged  == i_start - st.i_end_prev = 1
    IN [counter    |-> searchsorted(id_start(d), i_end),
        i_end_prev |-> i_end,
        cell_id    |-> IF merged THEN st.cell_id ELSE st.cell_id + 1,
        labels     |-> SetSlice(st.labels, i_start, i_end,
                                IF merged THEN st.cell_id - 1 ELSE st.cell_id),
        pc         |-> "while"]

\* Faulty variant of SegBody: the slice stops one gate short (labels[i_start:i_end]).
SegBody_ExclusiveEnd(st, d, rho, pop) ==
    LET i_start == NextStart(st, d)
        i_end   == NextEnd(st, d, rho)
        merged  == i_start - st.i_end_prev = 1
        keep    == i_end - i_start + 1 >= pop
    IN [counter    |-> searchsorted(id_start(d), i_end),
        i_end_prev |-> i_end,
        cell_id    |-> IF ~merged /\ keep THEN st.cell_id + 1 ELSE st.cell_id,
        labels     |-> IF merged THEN SetSlice(st.labels, i_start, i_end - 1, st.cell_id - 1)
                       ELSE IF keep THEN SetSlice(st.labels, i_start, i_end - 1, st.cell_id)
                       ELSE st.labels,
        pc         |-> "while"]

\* Faulty variant of SegBody: the next start is searched from i_start, not i_end
\* (np.searchsorted(id_start, i_start, side="left")).
SegBody_SearchFromStart(st, d, rho, pop) ==
    LET i_start == NextStart(st, d)
        i_end   == NextEnd(st, d, rho)
        merged  == i_start - st.i_end_prev = 1
        keep    == i_end - i_start + 1 >= pop
    IN [counter    |-> searchsorted(id_start(d), i_start),
        i_end_prev |-> i_end,
        cell_id    |-> IF ~merged /\ keep THEN st.cell_id + 1 ELSE st.cell_id,
        labels     |-> IF merged THEN SetSlice(st.labels, i_start, i_end, st.cell_id - 1)
                       ELSE IF keep THEN SetSlice(st.labels, i_start, i_end, st.cell_id)
                       ELSE st.labels,
        pc         |-> "while"]

\* One iteration of the while loop that builds a cell (lines 370-383).
SegBody(st, d, rho, pop) ==
    LET i_start == NextStart(st, d)
        i_end   == NextEnd(st, d, rho)
        merged  == i_start - st.i_end_prev = 1
        keep    == i_end - i_start + 1 >= pop
    IN [counter    |-> searchsorted(id_start(d), i_end),
        i_end_prev |-> i_end,
        cell_id    |-> IF ~merged /\ keep THEN st.cell_id + 1 ELSE st.cell_id,
        labels     |-> IF merged THEN SetSlice(st.labels, i_start, i_end, st.cell_id - 1)
                       ELSE IF keep THEN SetSlice(st.labels, i_start, i_end, st.cell_id)
                       ELSE st.labels,
        pc         |-> "while"]

\* One pass through the loop head: leave, break, or build a cell.
SegStep(st, d, rho, pop) ==
    IF ~LoopCond(st, d) THEN [st EXCEPT !.pc = "done"]
    ELSE IF EndExceeds(st, d, rho)
         THEN [st EXCEPT !.counter = searchsorted(id_end(d, rho), NextStart(st, d)),
                         !.pc = "done"]
         ELSE SegBody(st, d, rho, pop)

RECURSIVE SegRun(_, _, _, _)
SegRun(st, d, rho, pop) ==
    IF st.pc = "done" THEN st ELSE SegRun(SegStep(st, d, rho, pop), d, rho, pop)

\* the label array the function returns
dataMasking_DROPs(d, rho, pop) == SegRun(SegStart(Size(d)), d, rho, pop).labels


-----------------------------------------------------------------------------
(* The segmentation of one radial, one loop iteration per step *)

NumGate == 9
SegNumGood == 2
MaxPopulation == 3
num_good == 15
population_default == 5

\* (dispersion, correlation) samples: a start gate at the dispersion ceiling, an end
\* gate, and a quiet gate at the correlation ceiling
GateSamples == {<<98, 20>>, <<50, 20>>, <<50, 90>>}
RhoSamples == {20, 90}

NumWindow == NumGate - SegNumGood + 1

SegInputs ==
    { [d   |-> PadDispersion([g \in 0..(NumWindow - 1) |-> prof[g][1]], SegNumGood),
       rho |-> Concat([g \in 0..(NumWindow - 1) |-> prof[g][2]], tail),
       pop |-> pop] :
         prof \in [0..(NumWindow - 1) -> GateSamples],
         tail \in [0..(SegNumGood - 2) -> RhoSamples],
         pop \in 1..MaxPopulation }

\* the 45-gate profile: 20 gates at 0.99, 5 at 0.5, 20 at 0.99; correlation 0.95
\* except 0.2 on the 5 middle gates
DipDispersionWindows == [g \in 0..(45 - num_good) |-> IF g >= 20 /\ g < 25 THEN 50 ELSE 99]
DipCorrelation == [g \in 0..44 |-> IF g >= 20 /\ g < 25 THEN 20 ELSE 95]
DipInput ==
    [d   |-> PadDispersion(DipDispersionWindows, num_good),
     rho |-> DipCorrelation,
     pop |-> population_default]

Empty == Const(0, 0)

IdleArrays ==
    /\ GateWidth_array = Empty
    /\ KDP_array = Empty
    /\ reflectivity_array = Empty
IdleInputs ==
    /\ KDP_in = Empty
    /\ reflectivity_in = Empty
IdleSeg ==
    /\ counter = 0
    /\ i_end_prev = 0
    /\ cell_id = 1
    /\ labels = Empty
IdleUnfold ==
    /\ ref = 0
    /\ pt_start = 0
IdleUnfoldPars ==
    /\ max_phaseDiff = 0
    /\ dphase = 0
IdleStatus == status = <<>>

\* record_list: None, or the list of the radials to record
None == [none |-> TRUE, items |-> {}]
List(S) == [none |-> FALSE, items |-> S]
IdleRecord == record_list = None

InitSeg ==
    \E inp \in SegInputs \cup {DipInput} :
        /\ fn = "dataMasking_DROPs"
        /\ pc = "while"
        /\ d_PhiDP = Const(1, inp.d)
        /\ rho_hv_array = Const(1, inp.rho)
        /\ population_min = inp.pop
        /\ Phi_dp_array = Empty
        /\ Phi_dp_in = Empty
        /\ IdleArrays /\ IdleInputs /\ IdleUnfold /\ IdleUnfoldPars /\ IdleStatus /\ IdleRecord
        /\ r_start = 0
        /\ r = 0
        /\ cid = 0
        /\ counter = SegStart(Size(inp.d)).counter
        /\ i_end_prev = SegStart(Size(inp.d)).i_end_prev
        /\ cell_id = SegStart(Size(inp.d)).cell_id
        /\ labels = SegStart(Size(inp.d)).labels

SegState ==
    [counter |-> counter, i_end_prev |-> i_end_prev, cell_id |-> cell_id,
     labels |-> labels, pc |-> pc]

SegAssign(st) ==
    /\ counter' = st.counter
    /\ i_end_prev' = st.i_end_prev
    /\ cell_id' = st.cell_id
    /\ labels' = st.labels
    /\ pc' = st.pc
    /\ UNCHANGED <<fn, arrayVars, inVars, parVars, r, cid, unfVars, status>>

InSeg == fn = "dataMasking_DROPs" /\ pc = "while"

\* the loop builds the next cell
SegBuildCell ==
    /\ InSeg
    /\ LoopCond(SegState, d_PhiDP[0])
    /\ ~EndExceeds(SegState, d_PhiDP[0], rho_hv_array[0])
    /\ SegAssign(SegStep(SegState, d_PhiDP[0], rho_hv_array[0], population_min))

\* no end index at or after the current start: break
SegBreak ==
    /\ InSeg
    /\ LoopCond(SegState, d_PhiDP[0])
    /\ EndExceeds(SegState, d_PhiDP[0], rho_hv_array[0])
    /\ SegAssign(SegStep(SegState, d_PhiDP[0], rho_hv_array[0], population_min))

\* counter >= num_start: the loop ends
SegExit ==
    /\ InSeg
    /\ ~LoopCond(SegState, d_PhiDP[0])
    /\ SegAssign(SegStep(SegState, d_PhiDP[0], rho_hv_array[0], population_min))

NextSeg == SegBuildCell \/ SegBreak \/ SegExit

SpecSeg == InitSeg /\ [][NextSeg]_vars

SegDone == fn = "dataMasking_DROPs" /\ pc = "done"

\* the gates that carry label L
GatesOf(lab, L) == {g \in DOMAIN lab : lab[g] = L}
LabelsUsed(lab) == {lab[g] : g \in DOMAIN lab} \ {0}
Min(S) == CHOOSE x \in S : \A y \in S : x <= y
Max(S) == CHOOSE x \in S : \A y \in S : x >= y

\* the cell the loop is about to build
CurStart == NextStart(SegState, d_PhiDP[0])
CurEnd == NextEnd(SegState, d_PhiDP[0], rho_hv_array[0])
BuildsCell ==
    /\ InSeg
    /\ LoopCond(SegState, d_PhiDP[0])
    /\ ~EndExceeds(SegState, d_PhiDP[0], rho_hv_array[0])

(* C1: in the returned label array, every gate between the first and the last
   gate that carry a non-zero label L also carries L. *)
C1_NoGapInsideCell ==
    SegDone =>
        \A L \in LabelsUsed(labels) :
            \A g \in Min(GatesOf(labels, L))..Max(GatesOf(labels, L)) : labels[g] = L

(* C2: a cell whose start index is exactly 1 greater than the end index of the
   previously built cell receives the label of that previous cell. *)
C2_MergedUnderEarlierLabel ==
    [][(BuildsCell /\ i_end_prev >= 1 /\ CurStart - i_end_prev = 1)
          => \A g \in CurStart..CurEnd : labels'[g] = labels[i_end_prev]]_vars

(* C3: every non-zero label of the returned array is carried by at least
   population_min gates, labels extended by a merge included. *)
C3_PopulationMin ==
    SegDone =>
        \A L \in LabelsUsed(labels) : Cardinality(GatesOf(labels, L)) >= population_min

\* a returned array in which a label runs across the boundary of two merged cells
C3_Witness ==
    /\ SegDone
    /\ \E g \in DOMAIN labels :
          /\ g \in id_end(d_PhiDP[0], rho_hv_array[0])
          /\ g + 1 \in id_start(d_PhiDP[0])
          /\ labels[g] # 0
          /\ labels[g + 1] = labels[g]

IsDipInput ==
    /\ d_PhiDP[0] = DipInput.d
    /\ rho_hv_array[0] = DipInput.rho
    /\ population_min = DipInput.pop

(* C4 as stated: on the 45-gate dip profile one cell, label 1, spanning gates 0..44. *)
C4_SpansConcatenation ==
    (SegDone /\ IsDipInput) =>
        /\ LabelsUsed(labels) = {1}
        /\ Min(GatesOf(labels, 1)) = 0
        /\ Max(GatesOf(labels, 1)) = 44

(* C4 as amended: on the 45-gate dip profile one cell, label 1, on gates 0..20
   (first start gate to first end gate of the dip); gates 21..44 stay 0. *)
C4_OneCellToFirstEnd ==
    (SegDone /\ IsDipInput) =>
        labels = [g \in 0..44 |-> IF g <= 20 THEN 1 ELSE 0]

C4_Witness == SegDone /\ IsDipInput /\ cell_id = 2

\* The loop under scheduling until it ends.  population_min has no part in the
\* control of the loop (counter, i_end_prev): the calls with population_min = 1, on
\* radials whose trailing gates (those past the last full window) have a correlation
\* below rho_max.
InitSegFair ==
    /\ InitSeg
    /\ population_min = 1
    /\ \A g \in NumWindow..(NumGate - 1) : rho_hv_array[0][g] < rho_max
SpecSegFair == InitSegFair /\ [][NextSeg]_vars /\ WF_vars(NextSeg)

(* C13: every iteration of the segmentation loop either ends the loop or builds a cell
   that starts after the end of the cell built before it and moves the start counter
   to a strictly later start index; the loop terminates. *)
C13_LoopAdvancesAndTerminates ==
    /\ [][InSeg =>
             \/ pc' = "done"
             \/ /\ counter' > counter
                /\ CurStart < CurEnd
                /\ i_end_prev >= 1 => CurStart > i_end_prev
                /\ i_end_prev' = CurEnd
                /\ LoopCond(SegState, d_PhiDP[0])' =>
                      Nth(id_start(d_PhiDP[0]), counter') > CurEnd]_vars
    /\ <>SegDone

\* the loop has ended after building two labelled cells
C13_Witness == SegDone /\ cell_id >= 3

-----------------------------------------------------------------------------
(* PhaseUnfolding.  Phase in whole degrees, ref in tenths of a degree, gate
   width in metres. *)

std_start == 5
rho_hv_start == 90
std_ref == 15
slope_min_ref == -5
slope_max_ref == 20

\* the indices of the Python slice a[lo:hi] of an array of n elements
PySlice(n, lo, hi) ==
    LET norm(k) == IF k < 0 THEN (IF n + k < 0 THEN 0 ELSE n + k)
                   ELSE (IF k > n THEN n ELSE k)
    IN {k \in 0..(n - 1) : norm(lo) <= k /\ k < norm(hi)}

\* np.std(phi[i:i+10]) < limit, as 10 * sum(x^2) - sum(x)^2 < 100 * limit^2 on the
\* window taken relative to its first gate
StdBelow(phi, i, limit) ==
    LET y(k) == phi[i + k] - phi[i]
        s1 == y(0) + y(1) + y(2) + y(3) + y(4) + y(5) + y(6) + y(7) + y(8) + y(9)
        s2 == y(0) * y(0) + y(1) * y(1) + y(2) * y(2) + y(3) * y(3) + y(4) * y(4)
              + y(5) * y(5) + y(6) * y(6) + y(7) * y(7) + y(8) * y(8) + y(9) * y(9)
    IN 10 * s2 - s1 * s1 < 100 * limit * limit

\* the first gate of range(5, num_gate - 9) that opens a trusted window (line 151)
StartGates(phi, rho) ==
    {i \in 5..(Size(phi) - 10) :
        /\ StdBelow(phi, i, std_start)
        /\ \A k \in PySlice(Size(phi), i - 5, i) : rho[k] > rho_hv_start}

\* 10 * slope * w_r: cov(range, phi) / var(range) * w_r over the 5 gates before i
SlopeTimesWidth(phi, i) ==
    (-2) * phi[i - 5] - phi[i - 4] + phi[i - 2] + 2 * phi[i - 1]

\* slope_min_ref < slope < slope_max_ref; the slope of an empty slice is NaN and
\* compares false
SlopeInRange(phi, i, w) ==
    /\ Cardinality(PySlice(Size(phi), i - 5, i)) = 5
    /\ 100 * SlopeTimesWidth(phi, i) > slope_min_ref * w
    /\ 100 * SlopeTimesWidth(phi, i) < slope_max_ref * w

\* Faulty variant of TrackGate: the fold test ignores the running reference.
TrackGate_NoReference(st, i, w, mpd, dph) ==
    LET smooth == StdBelow(st.phi, i, std_ref) /\ SlopeInRange(st.phi, i, w)
        ref1   == IF smooth THEN st.ref + SlopeTimesWidth(st.phi, i) ELSE st.ref
    IN [phi |-> IF 10 * st.phi[i] < 10 * mpd
                THEN [st.phi EXCEPT ![i] = @ + dph] ELSE st.phi,
        ref |-> ref1]

\* Faulty variant of TrackGate: the gate is folded until it is no longer below the
\* reference by more than max_phaseDiff (while in place of if).
TrackGate_FoldUntilAbove(st, i, w, mpd, dph) ==
    LET smooth   == StdBelow(st.phi, i, std_ref) /\ SlopeInRange(st.phi, i, w)
        ref1     == IF smooth THEN st.ref + SlopeTimesWidth(st.phi, i) ELSE st.ref
        below(n) == 10 * (st.phi[i] + n * dph) - ref1 < 10 * mpd
        folds    == CHOOSE n \in 0..8 : ~below(n) /\ \A m \in 0..(n - 1) : below(m)
    IN [phi |-> [st.phi EXCEPT ![i] = @ + folds * dph],
        ref |-> ref1]

\* the body of the tracking loop at gate i (lines 157-165)
TrackGate(st, i, w, mpd, dph) ==
    LET smooth == StdBelow(st.phi, i, std_ref) /\ SlopeInRange(st.phi, i, w)
        ref1   == IF smooth THEN st.ref + SlopeTimesWidth(st.phi, i) ELSE st.ref
    IN [phi |-> IF 10 * st.phi[i] - ref1 < 10 * mpd
                THEN [st.phi EXCEPT ![i] = @ + dph] ELSE st.phi,
        ref |-> ref1]

RECURSIVE TrackFrom(_, _, _, _, _)
TrackFrom(st, i, w, mpd, dph) ==
    IF i > Size(st.phi) - 10 THEN st
    ELSE TrackFrom(TrackGate(st, i, w, mpd, dph), i + 1, w, mpd, dph)

\* One pass of the loop over radials (lines 146-165) on the radial phi, entered
\* with the values ref0 and pt0 of ref and pt_start.
UnfoldRadial(phi, rho, w, ref0, pt0, mpd, dph) ==
    LET found == StartGates(phi, rho) # {}
        i0    == IF found THEN Min(StartGates(phi, rho)) ELSE pt0
        refi  == IF found
                 THEN 2 * (phi[i0 - 5] + phi[i0 - 4] + phi[i0 - 3] + phi[i0 - 2] + phi[i0 - 1])
                 ELSE ref0
        out   == TrackFrom([phi |-> phi, ref |-> refi], i0, w, mpd, dph)
    IN [phi |-> out.phi, ref |-> out.ref, pt_start |-> i0]

\* PhaseUnfolding on the one-radial array holding only this radial
UnfoldAlone(phi, rho, w, mpd, dph) == UnfoldRadial(phi, rho, w, 0, 0, mpd, dph).phi

UnfoldGates == 26

Bases == {200, 300}
Ramps == {0, 1}

\* a radial that follows base + ramp * gate, with the gate at jump 200 degrees below
\* (jump = -1: no such gate)
Profile(base, ramp, jump) ==
    [g \in 0..(UnfoldGates - 1) |-> base + ramp * g - (IF g = jump THEN 200 ELSE 0)]

RadialPool ==
    { [phi |-> Profile(base, ramp, jump), rho |-> Const(UnfoldGates, rho), w |-> w] :
        base \in Bases, ramp \in Ramps, jump \in (-1)..(UnfoldGates - 1),
        rho \in {50, 95}, w \in {75, 1000} }

PriorPool ==
    { [phi |-> Profile(base, 0, -1), rho |-> Const(UnfoldGates, rho), w |-> 1000] :
        base \in Bases, rho \in {50, 95} }

\* sweeps of one radial, and of two radials
Sweeps ==
    {Const(1, b) : b \in RadialPool}
    \cup {Concat(Const(1, a), Const(1, b)) : a \in PriorPool, b \in RadialPool}

\* (max_phaseDiff, dphase): the defaults, and the pair of the call at line 517
UnfoldParams == {<<-80, 180>>, <<-180, 360>>}

InitUnfold ==
    \E sw \in Sweeps, par \in UnfoldParams :
        /\ fn = "PhaseUnfolding"
        /\ pc = "radial"
        /\ Phi_dp_array = [q \in DOMAIN sw |-> sw[q].phi]
        /\ Phi_dp_in = [q \in DOMAIN sw |-> sw[q].phi]
        /\ rho_hv_array = [q \in DOMAIN sw |-> sw[q].rho]
        /\ GateWidth_array = [q \in DOMAIN sw |-> sw[q].w]
        /\ d_PhiDP = Empty
        /\ KDP_array = Empty
        /\ reflectivity_array = Empty
        /\ IdleInputs /\ IdleSeg /\ IdleUnfold /\ IdleStatus /\ IdleRecord
        /\ population_min = 0
        /\ max_phaseDiff = par[1]
        /\ dphase = par[2]
        /\ r_start = 0
        /\ r = 0
        /\ cid = 0

\* the body of the loop over radials for radial r
UnfoldStep ==
    /\ fn = "PhaseUnfolding" /\ pc = "radial"
    /\ r < Size(Phi_dp_array)
    /\ LET out == UnfoldRadial(Phi_dp_array[r], rho_hv_array[r], GateWidth_array[r],
                               ref, pt_start, max_phaseDiff, dphase)
       IN /\ Phi_dp_array' = [Phi_dp_array EXCEPT ![r] = out.phi]
          /\ ref' = out.ref
          /\ pt_start' = out.pt_start
    /\ r' = r + 1
    /\ UNCHANGED <<fn, pc, rho_hv_array, d_PhiDP, GateWidth_array, KDP_array,
                   reflectivity_array, inVars, parVars, cid, segVars, status>>

UnfoldReturn ==
    /\ fn = "PhaseUnfolding" /\ pc = "radial"
    /\ r = Size(Phi_dp_array)
    /\ pc' = "done"
    /\ UNCHANGED <<fn, arrayVars, inVars, parVars, r, cid, segVars, unfVars, status>>

NextUnfold == UnfoldStep \/ UnfoldReturn

SpecUnfold == InitUnfold /\ [][NextUnfold]_vars

UnfoldDone == fn = "PhaseUnfolding" /\ pc = "done"

\* radial q entered the call following a stable reference (correlation 0.95, phase
\* base + ramp * gate) except for the gate jump, 200 degrees below it
StableWithJump(q, jump) ==
    /\ \A g \in DOMAIN rho_hv_array[q] : rho_hv_array[q][g] = 95
    /\ \E base \in Bases, ramp \in Ramps : Phi_dp_in[q] = Profile(base, ramp, jump)

DefaultFold == max_phaseDiff = -80 /\ dphase = 180

\* the jump gate lies after the 10-gate window of the first trusted start gate (5)
\* and inside range(pt_start, num_gate - 9)
Trackable(jump) == 15 <= jump /\ jump <= UnfoldGates - 10

FoldedOnlyAt(q, jump) ==
    Phi_dp_array[q] = [Phi_dp_in[q] EXCEPT ![jump] = @ + dphase]

(* C5 as stated: with max_phaseDiff = -80 and dphase = 180, a radial that follows a
   stable reference except for one gate 200 degrees below it gets the fold
   increment exactly once, at that gate, and no other gate changes. *)
C5_FoldAtJumpGate ==
    (UnfoldDone /\ DefaultFold) =>
        \A q \in DOMAIN Phi_dp_in : \A jump \in 0..(UnfoldGates - 1) :
            StableWithJump(q, jump) => FoldedOnlyAt(q, jump)

(* C5 as amended: the fold increment is added exactly once, at the jump gate, and no
   other gate changes, when the jump gate has index >= 15 and < num_gate - 9; a
   jump gate outside that range is left as it is, and no gate changes. *)
C5_FoldAtTrackableJumpGate ==
    (UnfoldDone /\ DefaultFold) =>
        \A q \in DOMAIN Phi_dp_in : \A jump \in 0..(UnfoldGates - 1) :
            StableWithJump(q, jump) =>
                IF Trackable(jump) THEN FoldedOnlyAt(q, jump)
                ELSE Phi_dp_array[q] = Phi_dp_in[q]

C5_Witness ==
    /\ UnfoldDone /\ DefaultFold
    /\ \E q \in DOMAIN Phi_dp_in : \E jump \in 0..(UnfoldGates - 1) :
          StableWithJump(q, jump) /\ Trackable(jump) /\ FoldedOnlyAt(q, jump)

(* C6: every radial of a multi-radial array gets the result PhaseUnfolding gives
   that radial alone. *)
C6_RadialsIndependent ==
    UnfoldDone =>
        \A q \in DOMAIN Phi_dp_in :
            Phi_dp_array[q] = UnfoldAlone(Phi_dp_in[q], rho_hv_array[q], GateWidth_array[q],
                                          max_phaseDiff, dphase)

(* C14: in one call every gate is left as passed in or raised by dphase once, and the
   pass for a radial changes no gate before the gate its tracking starts from nor
   any of the last 9 gates. *)
C14_SingleForwardPass ==
    [][(fn = "PhaseUnfolding" /\ pc = "radial" /\ r < Size(Phi_dp_array)) =>
          /\ \A q \in DOMAIN Phi_dp_array : \A g \in DOMAIN Phi_dp_array[q] :
                \/ Phi_dp_array'[q][g] = Phi_dp_in[q][g]
                \/ Phi_dp_array'[q][g] = Phi_dp_in[q][g] + dphase
          /\ \A g \in DOMAIN Phi_dp_array[r] :
                (g < pt_start' \/ g >= Size(Phi_dp_array[r]) - 9)
                    => Phi_dp_array'[r][g] = Phi_dp_array[r][g]]_vars

\* a call that tracked from a trusted start gate and folded a gate
C14_Witness ==
    /\ UnfoldDone
    /\ pt_start >= 5
    /\ \E q \in DOMAIN Phi_dp_array : \E g \in DOMAIN Phi_dp_array[q] :
          g >= pt_start /\ Phi_dp_array[q][g] = Phi_dp_in[q][g] + dphase

-----------------------------------------------------------------------------
(* correct_ZPHI.  Rationals are pairs <<numerator, denominator>>.  A quantity that
   depends on exp(-0.23 * b * PIA) is held exactly as k + e * exp(-0.23 * b * PIA):
   the exponential is 1 when PIA = 0 and is otherwise kept as a symbol, and a rescaled
   reflectivity is held as its input value with the list of the denominators it
   was divided by. *)

RECURSIVE GCD(_, _)
GCD(a, b) == IF b = 0 THEN a ELSE GCD(b, a % b)

Abs(x) == IF x < 0 THEN -x ELSE x

Rat(n, d) ==
    LET s == IF d < 0 THEN -1 ELSE 1
        g == GCD(Abs(n), Abs(d))
    IN <<(s * n) \div g, (s * d) \div g>>

RZero == <<0, 1>>
ROne == <<1, 1>>
RSub(x, y) == Rat(x[1] * y[2] - y[1] * x[2], x[2] * y[2])
RAdd(x, y) == Rat(x[1] * y[2] + y[1] * x[2], x[2] * y[2])
RMul(x, y) == Rat(x[1] * y[1], x[2] * y[2])
RDiv(x, y) == Rat(x[1] * y[2], x[2] * y[1])

c_046 == <<23, 50>>      \* 0.46
b_coef == <<39, 50>>     \* 0.78

\* exp(-0.23 * b * PIA)
ExpTerm(PIA) == IF PIA = 0 THEN [k |-> ROne, e |-> RZero] ELSE [k |-> RZero, e |-> ROne]

\* 1.0 - np.exp(-0.23*b*PIA) / 0.46 / reflect_integral (line 468), for a positive
\* integral
get_para_a(reflect_integral, PIA) ==
    [k |-> RSub(ROne, RDiv(RDiv(ExpTerm(PIA).k, c_046), reflect_integral)),
     e |-> RSub(RZero, RDiv(RDiv(ExpTerm(PIA).e, c_046), reflect_integral))]

\* 1.0 - 0.46 * a_coef * b_coef * reflect_integral (line 499)
RescaleDenominator(a, reflect_integral) ==
    [k |-> RSub(ROne, RMul(RMul(RMul(c_046, a.k), b_coef), reflect_integral)),
     e |-> RSub(RZero, RMul(RMul(RMul(c_046, a.e), b_coef), reflect_integral))]

\* no rational combination k + e * exp(x), x # 0 rational, e # 0, is rational
DenominatorIsOne(D) == D.k = ROne /\ D.e = RZero

\* z / np.power(D, 1.0 / b_coef) for a reflectivity value z > 0
Rescale(v, D, PIA) ==
    IF DenominatorIsOne(D) THEN v
    ELSE [v EXCEPT !.scaled = Append(@, [den |-> D, PIA |-> PIA])]

Reflectivity(z) == [z |-> z, scaled |-> <<>>]

c_min == 30     \* 0.03, in thousandths
c_max == 180    \* 0.18

\* PIA = c_coef * (Phi_dp_array - Phi_dp_array[r_start]) (line 495), in thousandths:
\* the second operand is row r_start of the array
PathAttenuation(c_coef, phi, rs) ==
    [q \in DOMAIN phi |-> [g \in DOMAIN phi[q] |-> c_coef * (phi[q][g] - phi[rs][g])]]

\* a_coef broadcasts reflect_integral (num_gate - r_start values) against PIA
\* (num_radial x num_gate): the shapes agree only if the trailing lengths are equal
\* or the shorter is 1
Broadcasts(num_gate, rs) == num_gate - rs = num_gate \/ num_gate - rs = 1

\* lines 495-499 for one pass of the loop: every row from r_start on is divided
ZPHIRescale(refl, phi, rs, c_coef, reflect_integral) ==
    LET PIA == PathAttenuation(c_coef, phi, rs)
        ig(g) == reflect_integral[IF Size(reflect_integral) = 1 THEN 0 ELSE g]
    IN [q \in DOMAIN refl |->
          IF q < rs THEN refl[q]
          ELSE [g \in DOMAIN refl[q] |->
                  Rescale(refl[q][g],
                          RescaleDenominator(get_para_a(ig(g), PIA[q][g]), ig(g)),
                          PIA[q][g])]]

ZGates == 3

\* values the quadrature of reflectivity^b returns (positive)
IntegralSamples == {<<1, 1>>, <<2, 1>>}
PhaseRows == {Const(ZGates, 100), [g \in 0..(ZGates - 1) |-> 100 + 10 * g]}
ReflRows == {Const(ZGates, Reflectivity(10)), [g \in 0..(ZGates - 1) |-> Reflectivity(10 + 10 * g)]}
ZRadials == {0, 1}

InitZPHI ==
    \E phi \in [ZRadials -> PhaseRows], refl \in [ZRadials -> ReflRows], rs \in {0, 1} :
        /\ fn = "correct_ZPHI"
        /\ pc = "radial"
        /\ Phi_dp_array = phi
        /\ Phi_dp_in = phi
        /\ reflectivity_array = refl
        /\ reflectivity_in = refl
        /\ GateWidth_array = [q \in ZRadials |-> 75]
        /\ rho_hv_array = Empty
        /\ d_PhiDP = Empty
        /\ KDP_array = Empty
        /\ KDP_in = Empty
        /\ IdleSeg /\ IdleUnfold /\ IdleUnfoldPars /\ IdleStatus /\ IdleRecord
        /\ population_min = 0
        /\ r_start = rs
        /\ r = 0
        /\ cid = 0

InZPHI == fn = "correct_ZPHI" /\ pc = "radial"

ZPHIFrame ==
    UNCHANGED <<fn, Phi_dp_array, rho_hv_array, d_PhiDP, GateWidth_array, KDP_array,
                inVars, parVars, cid, segVars, unfVars, status>>

\* one pass of the loop over radials: the optimizer returns a coefficient within
\* its bounds, the quadrature returns the integrals, reflectivity is rescaled
ZPHICorrect ==
    /\ InZPHI
    /\ r < Size(reflectivity_array)
    /\ Broadcasts(Size(reflectivity_array[0]), r_start)
    /\ \E c_coef \in {c_min, c_max} :
       \E reflect_integral \in
              [0..(Size(reflectivity_array[0]) - r_start - 1) -> IntegralSamples] :
          reflectivity_array' =
              ZPHIRescale(reflectivity_array, Phi_dp_array, r_start, c_coef, reflect_integral)
    /\ r' = r + 1
    /\ pc' = pc
    /\ ZPHIFrame

\* the shapes of reflect_integral and PIA do not broadcast: line 498 raises
ZPHIShapeError ==
    /\ InZPHI
    /\ r < Size(reflectivity_array)
    /\ ~Broadcasts(Size(reflectivity_array[0]), r_start)
    /\ pc' = "raised"
    /\ UNCHANGED <<reflectivity_array, r>>
    /\ ZPHIFrame

\* the optimizer (or the loss function it calls) raises: nothing catches it
ZPHIFitRaises ==
    /\ InZPHI
    /\ r < Size(reflectivity_array)
    /\ pc' = "raised"
    /\ UNCHANGED <<reflectivity_array, r>>
    /\ ZPHIFrame

ZPHIReturn ==
    /\ InZPHI
    /\ r = Size(reflectivity_array)
    /\ pc' = "done"
    /\ UNCHANGED <<reflectivity_array, r>>
    /\ ZPHIFrame

NextZPHI == ZPHICorrect \/ ZPHIShapeError \/ ZPHIFitRaises \/ ZPHIReturn

SpecZPHI == InitZPHI /\ [][NextZPHI]_vars

(* C7: the pass for radial r leaves every gate below r_start, and every gate of
   every other radial, as it was. *)
C7_OnlyOwnRadialBeyondStart ==
    [][fn = "correct_ZPHI" =>
          \A q \in DOMAIN reflectivity_array : \A g \in DOMAIN reflectivity_array[q] :
              (q # r \/ g < r_start) => reflectivity_array'[q][g] = reflectivity_array[q][g]]_vars

\* the differential phase is the same at every gate of every radial
ZeroPhaseGrowth ==
    \A q \in DOMAIN Phi_dp_array : \A g \in DOMAIN Phi_dp_array[q] :
        Phi_dp_array[q][g] = Phi_dp_array[0][0]

(* C8: with zero differential phase growth (PIA = 0 at every gate) the rescaling
   leaves every reflectivity value unchanged, whatever coefficient the fit returns. *)
C8_ZeroGrowthUnchanged ==
    (fn = "correct_ZPHI" /\ ZeroPhaseGrowth) => reflectivity_array = reflectivity_in


-----------------------------------------------------------------------------
(* PhaseRec_LP and LP_solver.  Phase in twentieths of a degree, rate in            *)
(* thousandths of a degree per kilometre.  The solver is external: its status and  *)
(* the optimum it returns are choices of the environment.                          *)

\* np.nonzero(labels == cid)[0]: the gates of the cell in increasing order
cell_loc(lab, c) ==
    LET S == GatesOf(lab, c) IN [j \in 0..(Cardinality(S) - 1) |-> Nth(S, j)]

\* a[cell_loc]
Gather(a, loc) == [j \in DOMAIN loc |-> a[loc[j]]]

\* a[cell_loc] = v
Scatter(a, loc, v) ==
    [g \in DOMAIN a |-> IF \E j \in DOMAIN loc : loc[j] = g
                        THEN v[CHOOSE j \in DOMAIN loc : loc[j] = g]
                        ELSE a[g]]

\* len(np.bincount(labels)) - 1
n_cell(lab) == Max({lab[g] : g \in DOMAIN lab})

\* ten times the five-point derivative filter on the window that starts at gate j:
\* -0.2 x[j] - 0.1 x[j+1] + 0.1 x[j+3] + 0.2 x[j+4]
Stencil(x, j) == -2 * x[j] - x[j + 1] + x[j + 3] + 2 * x[j + 4]

\* Faulty variant of Monotone: the loop starts one window late
\* (range(num_gate + 3, 2 * num_gate - 2)).
Monotone_LateStart(x) == \A j \in 1..(Size(x) - 5) : Stencil(x, j) >= 0

\* the monotonicity constraints (lines 189-190)
Monotone(x) == \A j \in 0..(Size(x) - 5) : Stencil(x, j) >= 0

\* the objective at its least for x: sum of z[i] with z[i] >= |x[i] - phi[i]|
\* (lines 182-187); x in whole degrees
Fidelity(x, phi) == SumOver([i \in DOMAIN x |-> Abs(20 * x[i] - phi[i])], DOMAIN x)

LPMaxDeg == 2

\* the optima of the program among the profiles of whole degrees 0..LPMaxDeg
LP_optima(phi) ==
    LET F    == {x \in [DOMAIN phi -> 0..LPMaxDeg] : Monotone(x)}
        best == Min({Fidelity(x, phi) : x \in F})
    IN {x \in F : Fidelity(x, phi) = best}

\* twenty times 0.1 x[i-2] + 0.25 x[i-1] + 0.3 x[i] + 0.25 x[i+1] + 0.1 x[i+2]
Smoothed(phi_rec, i) ==
    2 * phi_rec[i - 2] + 5 * phi_rec[i - 1] + 6 * phi_rec[i] + 5 * phi_rec[i + 1]
        + 2 * phi_rec[i + 2]

\* lines 198-208 for the solver status st and, when it is 1, the optimum phi_rec
LP_solver(phi, st, phi_rec) ==
    LET n == Size(phi) IN
    IF st = 1
    THEN [i \in DOMAIN phi |-> IF i < 2 THEN phi[i]
                               ELSE IF i <= n - 3 THEN Smoothed(phi_rec, i)
                               ELSE Smoothed(phi_rec, n - 3)]
    ELSE phi

\* lines 226-228: the rate of the cell from its phase p and the gate width w
KDP_cell(p, w) ==
    LET n    == Size(p)
        K(j) == (5000 * Stencil(p, j)) \div w
    IN [i \in DOMAIN p |-> K(IF i < 2 THEN 0 ELSE IF i > n - 3 THEN n - 5 ELSE i - 2)]

LPGates == 12
LPRadials == {0, 1}
LPNotOptimal == {-1, 0}

\* a radial whose cells start at the gates of starts and end at the gates of ends
CellLayout(starts, ends) ==
    [g \in 0..(LPGates - 1) |->
        IF g \in starts THEN <<d_max, rho_max>>
        ELSE IF g \in ends THEN <<d_max - 1, rho_max - 1>>
        ELSE <<d_max - 1, rho_max>>]
LPLayouts == {CellLayout({0, 6}, {4, 10}), CellLayout({0}, {5}), CellLayout({}, {})}

\* phase profiles in whole degrees: flat, rising, oscillating, falling
LPPhaseRows ==
    {Const(LPGates, 20),
     [g \in 0..(LPGates - 1) |-> 20 * Min({LPMaxDeg, g \div 4})],
     [g \in 0..(LPGates - 1) |-> 20 * ((2 * g) % (LPMaxDeg + 1))],
     [g \in 0..(LPGates - 1) |-> 20 * Max({0, LPMaxDeg - g \div 2})]}
LPWidths == {250, 1000}

InitLP ==
    \E phi \in [LPRadials -> LPPhaseRows], lay \in [LPRadials -> LPLayouts],
       w \in [LPRadials -> LPWidths] :
        /\ fn = "PhaseRec_LP"
        /\ pc = "radial"
        /\ Phi_dp_array = phi
        /\ Phi_dp_in = phi
        /\ d_PhiDP = [q \in LPRadials |-> [g \in 0..(LPGates - 1) |-> lay[q][g][1]]]
        /\ rho_hv_array = [q \in LPRadials |-> [g \in 0..(LPGates - 1) |-> lay[q][g][2]]]
        /\ GateWidth_array = w
        /\ KDP_array = [q \in LPRadials |-> Const(LPGates, 0)]
        /\ KDP_in = [q \in LPRadials |-> Const(LPGates, 0)]
        /\ reflectivity_array = Empty
        /\ reflectivity_in = Empty
        /\ population_min = population_default
        /\ r_start = 0
        /\ r = 0
        /\ cid = 0
        /\ IdleSeg /\ IdleUnfold /\ IdleUnfoldPars /\ IdleStatus /\ IdleRecord

\* lines 215-222: the segmentation of radial r; a radial without cells is passed over
LPSegment ==
    /\ fn = "PhaseRec_LP" /\ pc = "radial"
    /\ r < Size(Phi_dp_array)
    /\ LET lab == dataMasking_DROPs(d_PhiDP[r], rho_hv_array[r], population_min) IN
          /\ labels' = lab
          /\ IF n_cell(lab) >= 1
             THEN cid' = 1 /\ r' = r /\ pc' = "cell"
             ELSE cid' = cid /\ r' = r + 1 /\ pc' = pc
    /\ UNCHANGED <<fn, arrayVars, inVars, parVars, counter, i_end_prev, cell_id, unfVars,
                   status>>

\* lines 224-228 for the cell cid of radial r, the solver ending with status st
LPCellBody(st, phi_rec) ==
    LET loc == cell_loc(labels, cid)
        rec == LP_solver(Gather(Phi_dp_array[r], loc), st, phi_rec)
    IN /\ Phi_dp_array' = [Phi_dp_array EXCEPT ![r] = Scatter(@, loc, rec)]
       /\ KDP_array' = [KDP_array EXCEPT
                           ![r] = Scatter(@, loc, KDP_cell(rec, GateWidth_array[r]))]
       /\ status' = Append(status, [r |-> r, cid |-> cid, status |-> st])
       /\ IF cid < n_cell(labels)
          THEN cid' = cid + 1 /\ r' = r /\ pc' = pc
          ELSE cid' = cid /\ r' = r + 1 /\ pc' = "radial"
       /\ UNCHANGED <<fn, rho_hv_array, d_PhiDP, GateWidth_array, reflectivity_array,
                      inVars, parVars, segVars, unfVars>>

InLPCell == fn = "PhaseRec_LP" /\ pc = "cell"

LPCellOptimal ==
    /\ InLPCell
    /\ \E phi_rec \in LP_optima(Gather(Phi_dp_array[r], cell_loc(labels, cid))) :
          LPCellBody(1, phi_rec)

LPCellNotOptimal ==
    /\ InLPCell
    /\ \E st \in LPNotOptimal : LPCellBody(st, <<>>)

LPReturn ==
    /\ fn = "PhaseRec_LP" /\ pc = "radial"
    /\ r = Size(Phi_dp_array)
    /\ pc' = "done"
    /\ UNCHANGED <<fn, arrayVars, inVars, parVars, r, cid, segVars, unfVars, status>>

NextLP == LPSegment \/ LPCellOptimal \/ LPCellNotOptimal \/ LPReturn

SpecLP == InitLP /\ [][NextLP]_vars

\* the step processes a cell for which the solver reports a status other than 1
CellFailsInStep ==
    /\ InLPCell
    /\ Len(status') = Len(status) + 1
    /\ status'[Len(status')].status # 1

(* C9: when the solver reports a status other than optimal for a cell, the phase and
   the rate of every gate of the cell keep their input values, and the sweep goes on
   with the remaining cells and radials. *)
C9_FailedCellLeftAsPassedIn ==
    [][CellFailsInStep =>
          /\ \A g \in GatesOf(labels, cid) :
                /\ Phi_dp_array'[r][g] = Phi_dp_in[r][g]
                /\ KDP_array'[r][g] = KDP_in[r][g]
          /\ pc' \in {"cell", "radial"}
          /\ (pc' = "cell" => cid' = cid + 1)
          /\ (pc' = "radial" => r' = r + 1)]_vars


\* the cell the last solve was for, when the solver ended with status 1
LastSolved == status[Len(status)]
LastSolvedOptimal ==
    /\ fn = "PhaseRec_LP"
    /\ Len(status) >= 1
    /\ LastSolved.status = 1
    /\ \/ pc = "cell" /\ LastSolved.r = r
       \/ pc = "radial" /\ LastSolved.r = r - 1

(* C12: when the solver succeeds on a cell, the filtered phase written to the cell is
   non-decreasing on the interior gates: for adjacent gates i, i + 1 of the cell with
   2 <= i and i + 1 <= num_gate - 3, output[i + 1] - output[i] >= 0. *)
C12_FilteredPhaseNonDecreasing ==
    LastSolvedOptimal =>
        LET loc == cell_loc(labels, LastSolved.cid)
            q   == LastSolved.r
        IN \A i \in 2..(Size(loc) - 4) :
              Phi_dp_array[q][loc[i + 1]] - Phi_dp_array[q][loc[i]] >= 0

\* a cell with adjacent interior gates was solved and its phase was changed
C12_Witness ==
    /\ LastSolvedOptimal
    /\ Size(cell_loc(labels, LastSolved.cid)) >= 6
    /\ \E g \in GatesOf(labels, LastSolved.cid) :
          Phi_dp_array[LastSolved.r][g] # Phi_dp_in[LastSolved.r][g]

-----------------------------------------------------------------------------
(* PhaseRec_DROPs.  Phase in whole degrees.  The spline fit of a cell of five gates *)
(* or more is numerical: the phase and the rate it yields are choices of the        *)
(* environment.  An exception is caught nowhere and ends the call.                  *)

MinFitGates == 5

\* What lines 407-448 do on a cell of M gates.  M = 4: rolling_window(Phi_dp_i, 5)
\* has no row and get_invW indexes invW[0] (line 431).  M = 3: Q_mat is 2 x 4 and its
\* product with the 3 phases is not aligned (line 422).  M = 2: the diagonals of
\* Q_mat are 0 x 0 and 2 x 2 and do not add (line 415).  M = 1: p_vec has length -1
\* (line 411).
FitOutcome(M) ==
    IF M >= MinFitGates THEN "fitted"
    ELSE IF M = MinFitGates - 1 THEN "IndexError"
    ELSE "ValueError"

\* complex2deg: the angle of a fitted value lies in [0, 360)
FitPhaseSamples == {10, 350}
FitRateSamples == {-1, 2}

\* cell_loc[:-1]
AllButLast(loc) == [j \in 0..(Size(loc) - 2) |-> loc[j]]

DGates == 10
DRadials == {0, 1}
DPopulations == {3, population_default}
DRecordLists == {None, List({0})}

DLayout(starts, ends) ==
    [g \in 0..(DGates - 1) |->
        IF g \in starts THEN <<d_max, rho_max>>
        ELSE IF g \in ends THEN <<d_max - 1, rho_max - 1>>
        ELSE <<d_max - 1, rho_max>>]
\* a cell of 4 gates before one of 5; a cell of 5 before one of 3; one cell; none
DLayouts == {DLayout({0, 5}, {3, 9}), DLayout({0, 6}, {4, 8}), DLayout({2}, {6}),
             DLayout({}, {})}

InitDROPs ==
    \E lay \in [DRadials -> DLayouts], pop \in DPopulations, rec \in DRecordLists :
        /\ fn = "PhaseRec_DROPs"
        /\ pc = "radial"
        /\ Phi_dp_array = [q \in DRadials |-> [g \in 0..(DGates - 1) |-> 100 + g]]
        /\ Phi_dp_in = Phi_dp_array
        /\ d_PhiDP = [q \in DRadials |-> [g \in 0..(DGates - 1) |-> lay[q][g][1]]]
        /\ rho_hv_array = [q \in DRadials |-> [g \in 0..(DGates - 1) |-> lay[q][g][2]]]
        /\ GateWidth_array = [q \in DRadials |-> 250]
        /\ KDP_array = [q \in DRadials |-> Const(DGates, 0)]
        /\ KDP_in = KDP_array
        /\ reflectivity_array = Empty
        /\ reflectivity_in = Empty
        /\ population_min = pop
        /\ record_list = rec
        /\ max_phaseDiff = 0 /\ dphase = 0 /\ r_start = 0
        /\ r = 0
        /\ cid = 0
        /\ IdleSeg /\ IdleUnfold /\ IdleStatus

\* lines 456-457 at the end of the pass for radial r: "r in record_list" raises a
\* TypeError when record_list is None
DROPsEndOfRadial ==
    IF record_list.none
    THEN r' = r /\ pc' = "raised"
    ELSE r' = r + 1 /\ pc' = "radial"

\* lines 391-403: the segmentation of radial r
DROPsSegment ==
    /\ fn = "PhaseRec_DROPs" /\ pc = "radial"
    /\ r < Size(Phi_dp_array)
    /\ LET lab == dataMasking_DROPs(d_PhiDP[r], rho_hv_array[r], population_min) IN
          /\ labels' = lab
          /\ IF n_cell(lab) >= 1
             THEN cid' = 1 /\ r' = r /\ pc' = "cell"
             ELSE cid' = cid /\ DROPsEndOfRadial
    /\ UNCHANGED <<fn, arrayVars, inVars, parVars, counter, i_end_prev, cell_id, unfVars,
                   status>>

InDROPsCell == fn = "PhaseRec_DROPs" /\ pc = "cell"

DROPsCellFrame ==
    UNCHANGED <<fn, rho_hv_array, d_PhiDP, GateWidth_array, reflectivity_array, inVars,
                parVars, segVars, unfVars>>

\* lines 405-454 for a cell the fit goes through on
DROPsCellFit ==
    LET loc == cell_loc(labels, cid) IN
    /\ InDROPsCell
    /\ FitOutcome(Size(loc)) = "fitted"
    /\ \E d_vec \in [DOMAIN loc -> FitPhaseSamples], rate \in FitRateSamples :
          /\ Phi_dp_array' = [Phi_dp_array EXCEPT ![r] = Scatter(@, loc, d_vec)]
          /\ KDP_array' = [KDP_array EXCEPT
                              ![r] = Scatter(@, AllButLast(loc),
                                             [j \in DOMAIN AllButLast(loc) |-> rate])]
    /\ status' = Append(status, [r |-> r, cid |-> cid, status |-> "fitted"])
    /\ IF cid < n_cell(labels)
       THEN cid' = cid + 1 /\ r' = r /\ pc' = pc
       ELSE cid' = cid /\ DROPsEndOfRadial
    /\ DROPsCellFrame

\* lines 405-431 for a cell of fewer than 5 gates: the exception leaves the function
DROPsCellRaises ==
    LET loc == cell_loc(labels, cid) IN
    /\ InDROPsCell
    /\ FitOutcome(Size(loc)) # "fitted"
    /\ status' = Append(status, [r |-> r, cid |-> cid, status |-> FitOutcome(Size(loc))])
    /\ pc' = "raised"
    /\ UNCHANGED <<Phi_dp_array, KDP_array, r, cid>>
    /\ DROPsCellFrame

DROPsReturn ==
    /\ fn = "PhaseRec_DROPs" /\ pc = "radial"
    /\ r = Size(Phi_dp_array)
    /\ pc' = "done"
    /\ UNCHANGED <<fn, arrayVars, inVars, parVars, r, cid, segVars, unfVars, status>>

NextDROPs == DROPsSegment \/ DROPsCellFit \/ DROPsCellRaises \/ DROPsReturn

SpecDROPs == InitDROPs /\ [][NextDROPs]_vars

\* the step handles a cell of fewer than 5 gates
ShortCellInStep ==
    /\ InDROPsCell
    /\ Cardinality(GatesOf(labels, cid)) < MinFitGates
    /\ Len(status') = Len(status) + 1

(* C10: a rain cell of fewer than 5 gates keeps its original phase, and the sweep
   goes on with the other cells and radials: the call is not aborted. *)
C10_ShortCellSkipped ==
    [][ShortCellInStep =>
          /\ \A g \in GatesOf(labels, cid) : Phi_dp_array'[r][g] = Phi_dp_in[r][g]
          /\ pc' # "raised"]_vars


\* the step fits the cell cid of radial r
CellFittedInStep ==
    /\ InDROPsCell
    /\ Len(status') = Len(status) + 1
    /\ status'[Len(status')].status = "fitted"

(* C11: after a cell is reconstructed, the rate at its last gate equals the rate at
   its second-to-last gate (edge-hold): no gate of the cell keeps its input rate. *)
C11_RateHeldAtLastGate ==
    [][CellFittedInStep =>
          LET loc == cell_loc(labels, cid) IN
          KDP_array'[r][loc[Size(loc) - 1]] = KDP_array'[r][loc[Size(loc) - 2]]]_vars

=============================================================================
